---- MODULE Spec2Model ----
(***************************************************************************)
(* Model of the virtio glue code of D3OS, os/kernel/src/device/virtio.rs:  *)
(* init() walks the virtio devices found on the PCI bus; for every device  *)
(* whose type is recognized VirtioPci::new scans the PCI capability list   *)
(* and builds the transport, and the Block class driver is constructed on  *)
(* top of it.                                                              *)
(***************************************************************************)
EXTENDS Integers, Sequences, FiniteSets, TLC

----------------------------------------------------------------------------
(* Bounds of the model *)

\* number of devices search_by_vendor_id may return
MaxDevices == 2

\* number of entries of one device's capability list
MaxCaps == 4

----------------------------------------------------------------------------
(* Constants of the program *)

VIRTIO_PCI_CAP_COMMON_CFG == 1

VIRTIO_PCI_CAP_NOTIFY_CFG == 2

VIRTIO_PCI_CAP_ISR_CFG == 3

VIRTIO_PCI_CAP_DEVICE_CFG == 4

CAP_BAR_OFFSET == 4

CAP_BAR_OFFSET_OFFSET == 8

CAP_LENGTH_OFFSET == 12

CAP_NOTIFY_OFF_MULTIPLIER_OFFSET == 16

\* capability id of a vendor-specific PCI capability (first byte of its header)
PCI_CAP_ID_VNDR == 9

----------------------------------------------------------------------------
(* Option and Result values *)

None == << >>

Some(x) == << x >>

Ok(x) == [ok |-> TRUE, err |-> << >>, val |-> << x >>]

Err(e) == [ok |-> FALSE, err |-> e, val |-> << >>]

\* value of `result` while VirtioPci::new has not returned for the device
NoResult == [ok |-> FALSE, err |-> << >>, val |-> << >>]

MissingCommonConfig == << "MissingCommonConfig" >>

MissingNotifyConfig == << "MissingNotifyConfig" >>

MissingIsrConfig == << "MissingIsrConfig" >>

BarOffsetOutOfRange == << "BarOffsetOutOfRange" >>

InvalidNotifyOffMultiplier(m) == << "InvalidNotifyOffMultiplier", m >>

----------------------------------------------------------------------------
(* The configuration space of a device, as far as the scan reads it *)

\* the sub-offsets of a capability the scan may read besides its header
PayloadOffsets == {CAP_BAR_OFFSET, CAP_BAR_OFFSET_OFFSET, CAP_LENGTH_OFFSET,
                   CAP_NOTIFY_OFF_MULTIPLIER_OFFSET}

Words(b, o, l, m) ==
    [off \in PayloadOffsets |->
        IF off = CAP_BAR_OFFSET THEN b
        ELSE IF off = CAP_BAR_OFFSET_OFFSET THEN o
        ELSE IF off = CAP_LENGTH_OFFSET THEN l
        ELSE m]

\* three payloads; the second has a bar word whose upper bytes are not zero
\* and an odd word at +16
PayloadA == Words(0, 16, 32, 4)

PayloadB == Words(257, 48, 64, 3)

PayloadC == Words(5, 80, 96, 6)

\* one entry of a capability list: whether the iterator yields it as
\* PciCapability::Vendor, the bytes of its header (next pointer, cap_len,
\* cfg_type) and the words behind the header
Cap(v, n, l, t, w) == [vendor |-> v, next |-> n, len |-> l, type |-> t, w |-> w]

\* the entries a capability list is drawn from
CapSet ==
    { Cap(FALSE, 64, 20, VIRTIO_PCI_CAP_COMMON_CFG, PayloadA),
      Cap(TRUE, 64, 16, VIRTIO_PCI_CAP_COMMON_CFG, PayloadA),
      Cap(TRUE, 64, 16, VIRTIO_PCI_CAP_COMMON_CFG, PayloadB),
      Cap(TRUE, 64, 15, VIRTIO_PCI_CAP_COMMON_CFG, PayloadC),
      Cap(TRUE, 64, 20, VIRTIO_PCI_CAP_NOTIFY_CFG, PayloadA),
      Cap(TRUE, 64, 20, VIRTIO_PCI_CAP_NOTIFY_CFG, PayloadB),
      Cap(TRUE, 64, 16, VIRTIO_PCI_CAP_NOTIFY_CFG, PayloadC),
      Cap(TRUE, 64, 15, VIRTIO_PCI_CAP_NOTIFY_CFG, PayloadB),
      Cap(TRUE, 64, 16, VIRTIO_PCI_CAP_ISR_CFG, PayloadC),
      Cap(TRUE, 64, 16, VIRTIO_PCI_CAP_DEVICE_CFG, PayloadB),
      Cap(TRUE, 64, 16, 5, PayloadA) }

\* the BAR slots the payloads above name
BarSlots == {0, 1, 5}

\* the types virtio_device_type may classify a device as
DeviceTypes == {"Block", "Network"}

\* the 32-bit word at the capability's address: capability id, next pointer,
\* cap_len and cfg_type, one byte each from the low byte up
HeaderWord(c) ==
    PCI_CAP_ID_VNDR + c.next * 256 + c.len * 65536 + c.type * 16777216

\* config_space.read(address.address, address.offset + off)
Read(c, off) == IF off = 0 THEN HeaderWord(c) ELSE c.w[off]

----------------------------------------------------------------------------
(* The pieces of the capability scan of VirtioPci::new *)

\* a scan that takes the low half of the header word
private_header_low(capability_header) == capability_header % 65536

\* (capability_header >> 16) as u16
private_header(capability_header) == (capability_header \div 65536) % 65536

\* private_header as u8
cap_len(ph) == ph % 256

\* (private_header >> 8) as u8
cfg_type(ph) == (ph \div 256) % 256

\* a scan that lets a capability of 15 bytes through
TooShort_15(len) == len < 15

\* the guard of the `continue`
TooShort(len) == len < 16

\* a scan whose Notify arm takes any capability that is not too short
NotifyLongEnough_16(len) == len >= 16

\* the guard on cap_len of the Notify arm
NotifyLongEnough(len) == len >= 20

\* a scan whose match arms lack the `is_none()` guard
is_none_dropped(slot) == TRUE

\* the `is_none()` guard of the match arms
is_none(slot) == slot = None

VirtioCapabilityInfo(b, o, l) == [bar |-> b, offset |-> o, length |-> l]

\* a scan that keeps the whole word at +4 as the bar
struct_info_untruncated(c) ==
    VirtioCapabilityInfo(Read(c, CAP_BAR_OFFSET),
                         Read(c, CAP_BAR_OFFSET_OFFSET),
                         Read(c, CAP_LENGTH_OFFSET))

struct_info(c) ==
    VirtioCapabilityInfo(Read(c, CAP_BAR_OFFSET) % 256,
                         Read(c, CAP_BAR_OFFSET_OFFSET),
                         Read(c, CAP_LENGTH_OFFSET))

\* one access to the device or the bus: a read or a write of the
\* configuration space at an offset of the capability, or of BAR memory
Access(k, off) == [kind |-> k, off |-> off]

CfgRead(off) == Access("cfg_read", off)

\* a scan that acknowledges each vendor capability by a write to its header
ScanAccesses_writing(c, nc) ==
    LET len == cap_len(private_header(Read(c, 0)))
    IN  {CfgRead(0)}
        \cup (IF c.vendor THEN {Access("cfg_write", 0)} ELSE {})
        \cup (IF c.vendor /\ ~TooShort(len)
              THEN {CfgRead(CAP_BAR_OFFSET), CfgRead(CAP_BAR_OFFSET_OFFSET),
                    CfgRead(CAP_LENGTH_OFFSET)}
              ELSE {})

\* the accesses of one iteration of the scan loop over capability c while
\* the Notify slot is nc: the iterator and the scan read the header, an
\* accepted capability has its three fields read, and the Notify arm reads
\* the multiplier
ScanAccesses(c, nc) ==
    LET len == cap_len(private_header(Read(c, 0)))
        ty == cfg_type(private_header(Read(c, 0)))
    IN  {CfgRead(0)}
        \cup (IF c.vendor /\ ~TooShort(len)
              THEN {CfgRead(CAP_BAR_OFFSET), CfgRead(CAP_BAR_OFFSET_OFFSET),
                    CfgRead(CAP_LENGTH_OFFSET)}
              ELSE {})
        \cup (IF c.vendor /\ ~TooShort(len) /\ ty = VIRTIO_PCI_CAP_NOTIFY_CFG
                 /\ NotifyLongEnough(len) /\ is_none(nc)
              THEN {CfgRead(CAP_NOTIFY_OFF_MULTIPLIER_OFFSET)}
              ELSE {})

\* an init() that takes no guard of the device
device_read_none(d) == {}

\* `device.read()`: the read guard of the device's RwLock
device_read(d) == { << "device", d >> }

----------------------------------------------------------------------------
(* The transport builder of VirtioPci::new *)

\* device.bar(slot, config_space) for a device whose implemented BARs are
\* `resolved`
bar(slot, resolved) == IF slot \in resolved THEN Some(slot) ELSE None

\* a builder that tests the multiplier the wrong way round
MultiplierInvalid_inverted(m) == m % 2 = 0

\* notify_off_multiplier % 2 != 0
MultiplierInvalid(m) == m % 2 /= 0

\* a builder that forgets the device configuration
virtio_config_space_none(dc, resolved) == Ok(None)

\* the match on device_cfg
virtio_config_space(dc, resolved) ==
    IF dc = None THEN Ok(None)
    ELSE IF bar(dc[1].bar, resolved) = None THEN Err(BarOffsetOutOfRange)
    ELSE Ok(bar(dc[1].bar, resolved))

\* a builder that tests the multiplier before it looks for the Common
\* capability
Build_multiplier_first(device_type, cc, nc, mult, ic, dc, resolved) ==
    IF MultiplierInvalid(mult) THEN Err(InvalidNotifyOffMultiplier(mult))
    ELSE IF cc = None THEN Err(MissingCommonConfig)
    ELSE IF bar(cc[1].bar, resolved) = None THEN Err(BarOffsetOutOfRange)
    ELSE IF nc = None THEN Err(MissingNotifyConfig)
    ELSE IF bar(nc[1].bar, resolved) = None THEN Err(MissingNotifyConfig)
    ELSE IF ic = None THEN Err(MissingIsrConfig)
    ELSE IF bar(ic[1].bar, resolved) = None THEN Err(MissingIsrConfig)
    ELSE IF ~virtio_config_space(dc, resolved).ok
         THEN Err(virtio_config_space(dc, resolved).err)
    ELSE Ok([device_type |-> device_type,
             common_cfg |-> bar(cc[1].bar, resolved)[1],
             notify_region |-> bar(nc[1].bar, resolved)[1],
             notify_off_multiplier |-> mult,
             isr_status |-> bar(ic[1].bar, resolved)[1],
             config_space |-> virtio_config_space(dc, resolved).val[1]])

\* the code after the scan loop, with the early returns of `?` in order
Build(device_type, cc, nc, mult, ic, dc, resolved) ==
    IF cc = None THEN Err(MissingCommonConfig)
    ELSE IF bar(cc[1].bar, resolved) = None THEN Err(BarOffsetOutOfRange)
    ELSE IF MultiplierInvalid(mult) THEN Err(InvalidNotifyOffMultiplier(mult))
    ELSE IF nc = None THEN Err(MissingNotifyConfig)
    ELSE IF bar(nc[1].bar, resolved) = None THEN Err(MissingNotifyConfig)
    ELSE IF ic = None THEN Err(MissingIsrConfig)
    ELSE IF bar(ic[1].bar, resolved) = None THEN Err(MissingIsrConfig)
    ELSE IF ~virtio_config_space(dc, resolved).ok
         THEN Err(virtio_config_space(dc, resolved).err)
    ELSE Ok([device_type |-> device_type,
             common_cfg |-> bar(cc[1].bar, resolved)[1],
             notify_region |-> bar(nc[1].bar, resolved)[1],
             notify_off_multiplier |-> mult,
             isr_status |-> bar(ic[1].bar, resolved)[1],
             config_space |-> virtio_config_space(dc, resolved).val[1]])

\* an init() that goes on with a transport that failed to build
ExpectPanics_never(r) == FALSE

\* `.expect("failed to setup virtio transport")` panics on Err
ExpectPanics(r) == ~r.ok

----------------------------------------------------------------------------
(* State *)

VARIABLES
    numDevices,             \* length of `devices` in init()
    devIdx,                 \* number of devices the for loop has taken
    pc,                     \* position of init(): loop, scan, build, dispatch, done, panicked
    typ,                    \* virtio_device_type of the current device
    caps,                   \* capabilities the iterator has yielded so far
    common_cfg,
    notify_cfg,
    notify_off_multiplier,
    isr_cfg,
    device_cfg,
    bars,                   \* the BAR slots of the current device that resolve
    result,                 \* what VirtioPci::new returned for the current device
    log,                    \* the messages logged, with the device they are about
    transports,             \* devices VirtioPci::new returned Ok for
    constructed,            \* devices a class-driver constructor was invoked for
    transportOps,           \* devices a Transport operation was issued for
    panic,                  \* none, or the panic that ended init()
    accesses,               \* what the last step of the capability scan accessed
    locks                   \* the lock guards init() holds

locals == << typ, caps, common_cfg, notify_cfg, notify_off_multiplier, isr_cfg,
             device_cfg, bars, result >>

virtioVars == << numDevices, devIdx, pc, typ, caps, common_cfg, notify_cfg,
                 notify_off_multiplier, isr_cfg, device_cfg, bars, result, log,
                 transports, constructed, transportOps, panic, accesses, locks >>

\* the state of the IPI code (ipi.rs)
VARIABLES
    ipc,                    \* position of the sending core: idle, poll, read_high, send_high, send_low
    iop,                    \* the function running: none, send_init, send_startup
    ivector,                \* the vector argument of send_startup
    icr_low_reg,            \* the low Interrupt Command Register of the local APIC
    icr_high_reg,           \* the high Interrupt Command Register
    icr,                    \* the local `icr`, low and high 32 bits
    ipiLog,                 \* the register reads and writes issued, in order
    ipiSpins,               \* reads of the current wait that found SendPending, without a yield
    ipiSends                \* calls of send_init and send_startup so far

ipiVars == << ipc, iop, ivector, icr_low_reg, icr_high_reg, icr, ipiLog,
              ipiSpins, ipiSends >>

\* the state of the network code (network/mod.rs)
VARIABLES
    socketsLock,            \* the thread holding the write lock of SOCKETS
    interfacesLock,         \* the thread holding the write lock of INTERFACES
    apc,                    \* position of the application thread
    aop,                    \* the function the application thread runs
    ppc,                    \* position of the polling thread in poll_sockets
    tcpState,               \* state of the TCP socket of the application
    peerSyn,                \* a remote peer has sent a connection request
    netRet,                 \* what the last call of the application returned
    netSleeps,              \* scheduler().sleep calls of the current accept_tcp
    rtl8139,                \* init found the network controller
    remote,                 \* the remote endpoint of the socket, its port
    ip_addrs,               \* the address list of the interface
    default_route,          \* the default IPv4 route of the interface, its router
    dhcpEvent,              \* the last event dhcp.poll() returned to poll_sockets
    netCalls                \* calls the application has made

\* the part of it that only DHCP changes
dhcpVars == << ip_addrs, default_route, dhcpEvent >>

netVars == << socketsLock, interfacesLock, apc, aop, ppc, tcpState, peerSyn,
              netRet, netSleeps, rtl8139, remote, netCalls, dhcpVars >>

vars == << virtioVars, ipiVars, netVars >>

\* the locals of one iteration of init() before VirtioPci::new has run
LocalsInit ==
    /\ caps = << >>
    /\ common_cfg = None
    /\ notify_cfg = None
    /\ notify_off_multiplier = 0
    /\ isr_cfg = None
    /\ device_cfg = None
    /\ bars = {}
    /\ result = NoResult

LocalsReset ==
    /\ caps' = << >>
    /\ common_cfg' = None
    /\ notify_cfg' = None
    /\ notify_off_multiplier' = 0
    /\ isr_cfg' = None
    /\ device_cfg' = None
    /\ bars' = {}
    /\ result' = NoResult

VirtioInit ==
    /\ numDevices \in 1..MaxDevices
    /\ devIdx = 0
    /\ pc = "loop"
    /\ typ = None
    /\ LocalsInit
    /\ log = << >>
    /\ transports = {}
    /\ constructed = {}
    /\ transportOps = {}
    /\ panic = "none"
    /\ accesses = {}
    /\ locks = {}

----------------------------------------------------------------------------
(* init(): the head of one iteration of the for loop *)

\* virtio_device_type returns None: the device is logged and skipped
IgnoreDevice ==
    /\ UNCHANGED << ipiVars, netVars >>
    /\ pc = "loop"
    /\ devIdx < numDevices
    /\ devIdx' = devIdx + 1
    /\ typ' = None
    /\ log' = Append(log, << devIdx + 1, "ignoring virtio device" >>)
    /\ UNCHANGED << numDevices, pc, caps, common_cfg, notify_cfg,
                    notify_off_multiplier, isr_cfg, device_cfg, bars, result,
                    transports, constructed, transportOps, panic, accesses,
                    locks >>

\* virtio_device_type returns Some(t): VirtioPci::new is entered
FoundDevice(t) ==
    /\ UNCHANGED << ipiVars, netVars >>
    /\ pc = "loop"
    /\ devIdx < numDevices
    /\ devIdx' = devIdx + 1
    /\ typ' = Some(t)
    /\ log' = Append(log, << devIdx + 1, "found virtio device" >>)
    /\ pc' = "scan"
    /\ LocalsReset
    /\ locks' = locks \cup device_read(devIdx + 1)
    /\ UNCHANGED << numDevices, transports, constructed, transportOps, panic,
                    accesses >>

\* the for loop of init() is over
Return ==
    /\ UNCHANGED << ipiVars, netVars >>
    /\ pc = "loop"
    /\ devIdx = numDevices
    /\ pc' = "done"
    /\ UNCHANGED << numDevices, devIdx, locals, log, transports, constructed,
                    transportOps, panic, accesses, locks >>

----------------------------------------------------------------------------
(* VirtioPci::new: one iteration of the loop over the capabilities *)

ScanCapability(c) ==
    /\ UNCHANGED << ipiVars, netVars >>
    /\ pc = "scan"
    /\ Len(caps) < MaxCaps
    /\ caps' = Append(caps, c)
    /\ LET ph == private_header(Read(c, 0))
           len == cap_len(ph)
           ty == cfg_type(ph)
           accepted == c.vendor /\ ~TooShort(len)
       IN  /\ common_cfg' =
                IF accepted /\ ty = VIRTIO_PCI_CAP_COMMON_CFG /\ is_none(common_cfg)
                THEN Some(struct_info(c)) ELSE common_cfg
           /\ notify_cfg' =
                IF accepted /\ ty = VIRTIO_PCI_CAP_NOTIFY_CFG
                   /\ NotifyLongEnough(len) /\ is_none(notify_cfg)
                THEN Some(struct_info(c)) ELSE notify_cfg
           /\ notify_off_multiplier' =
                IF accepted /\ ty = VIRTIO_PCI_CAP_NOTIFY_CFG
                   /\ NotifyLongEnough(len) /\ is_none(notify_cfg)
                THEN Read(c, CAP_NOTIFY_OFF_MULTIPLIER_OFFSET)
                ELSE notify_off_multiplier
           /\ isr_cfg' =
                IF accepted /\ ty = VIRTIO_PCI_CAP_ISR_CFG /\ is_none(isr_cfg)
                THEN Some(struct_info(c)) ELSE isr_cfg
           /\ device_cfg' =
                IF accepted /\ ty = VIRTIO_PCI_CAP_DEVICE_CFG /\ is_none(device_cfg)
                THEN Some(struct_info(c)) ELSE device_cfg
    /\ accesses' = ScanAccesses(c, notify_cfg)
    /\ UNCHANGED << numDevices, devIdx, pc, typ, bars, result, log, transports,
                    constructed, transportOps, panic, locks >>

\* the capability iterator is exhausted
ScanEnd ==
    /\ UNCHANGED << ipiVars, netVars >>
    /\ pc = "scan"
    /\ pc' = "build"
    /\ caps' = << >>
    /\ accesses' = {}
    /\ UNCHANGED << numDevices, devIdx, typ, common_cfg, notify_cfg,
                    notify_off_multiplier, isr_cfg, device_cfg, bars, result,
                    log, transports, constructed, transportOps, panic, locks >>

----------------------------------------------------------------------------
(* VirtioPci::new: the transport builder, and the expect() of init() *)

BuildTransport(resolved) ==
    /\ UNCHANGED << ipiVars, netVars >>
    /\ pc = "build"
    /\ bars' = resolved
    /\ LET r == Build(typ[1], common_cfg, notify_cfg, notify_off_multiplier,
                      isr_cfg, device_cfg, resolved)
       IN  /\ result' = r
           /\ transports' = IF r.ok THEN transports \cup {devIdx} ELSE transports
           /\ pc' = IF ExpectPanics(r) THEN "panicked" ELSE "dispatch"
           /\ panic' = IF ExpectPanics(r) THEN "expect" ELSE panic
    /\ locks' = locks \ device_read(devIdx)
    /\ UNCHANGED << numDevices, devIdx, typ, caps, common_cfg, notify_cfg,
                    notify_off_multiplier, isr_cfg, device_cfg, log,
                    constructed, transportOps, accesses >>

----------------------------------------------------------------------------
(* init(): the match on the device type *)

\* DeviceType::Block: VirtIOBlk::new(&transport) begins the initialization
\* through the transport, whose operations are all todo!()
DispatchBlock ==
    /\ UNCHANGED << ipiVars, netVars >>
    /\ pc = "dispatch"
    /\ typ = Some("Block")
    /\ constructed' = constructed \cup {devIdx}
    /\ transportOps' = transportOps \cup {devIdx}
    /\ pc' = "panicked"
    /\ panic' = "todo"
    /\ UNCHANGED << numDevices, devIdx, locals, log, transports, accesses,
                    locks >>

\* any other type: logged and ignored, the transport is dropped
DispatchOther ==
    /\ UNCHANGED << ipiVars, netVars >>
    /\ pc = "dispatch"
    /\ typ /= Some("Block")
    /\ log' = Append(log, << devIdx, "ignoring virtio device type" >>)
    /\ pc' = "loop"
    /\ typ' = None
    /\ LocalsReset
    /\ UNCHANGED << numDevices, devIdx, transports, constructed, transportOps,
                    panic, accesses, locks >>

----------------------------------------------------------------------------

(* The inter-processor interrupts of ipi.rs *)

\* the calls of send_init and send_startup explored
MaxSends == 2

\* the reads of one wait that may find SendPending before the APIC delivers
MaxSpins == 2

INTERRUPT_COMMAND_REGISTER_HIGH == 784

INTERRUPT_COMMAND_REGISTER_LOW == 768

IpiTriggerModeEdgeTriggered == 0

IpiLevelDeassert == 0

IpiLevelAssert == 1

IpiDeliveryStatusIdle == 0

IpiDeliveryStatusSendPending == 1

IpiTargetAllExcludingCurrent == 3

IpiDeliveryModeInit == 5

IpiDeliveryModeStartup == 6

\* the bitfield InterruptCommand: first bit and width of each field, the low
\* 32 bits hold bits 0 to 31 and the high 32 bits hold bits 32 to 63
InterruptCommand ==
    [ vector             |-> << 0, 8 >>,
      delivery_mode      |-> << 8, 3 >>,
      destination_mode   |-> << 11, 1 >>,
      delivery_status    |-> << 12, 1 >>,
      res1               |-> << 13, 1 >>,
      level              |-> << 14, 1 >>,
      trigger_mode       |-> << 15, 1 >>,
      res2               |-> << 16, 2 >>,
      destination_target |-> << 18, 2 >>,
      res3               |-> << 20, 36 >>,
      destination        |-> << 56, 8 >> ]

\* the n bits of word w from bit `from` up
Field(w, from, n) == (w \div (2 ^ from)) % (2 ^ n)

\* InterruptCommand::new()
InterruptCommand_new == [lo |-> 0, hi |-> 0]

\* From<u64> for InterruptCommand, of a value read as u32 and widened
InterruptCommand_from(low_value) == [lo |-> low_value, hi |-> 0]

\* the getter of a field that lies in the low 32 bits
Get(c, f) == Field(c.lo, InterruptCommand[f][1], InterruptCommand[f][2])

\* the setter of a field that lies in the low 32 bits
Set(c, f, v) ==
    LET from == InterruptCommand[f][1]
        n == InterruptCommand[f][2]
    IN  [c EXCEPT !.lo = @ - Field(@, from, n) * (2 ^ from) + v * (2 ^ from)]

RECURSIVE BitOr(_, _)
\* a | b
BitOr(a, b) ==
    IF a = 0 THEN b
    ELSE IF b = 0 THEN a
    ELSE (IF a % 2 = 1 \/ b % 2 = 1 THEN 1 ELSE 0) + 2 * BitOr(a \div 2, b \div 2)

\* existing_value | (high_value << 32)
WithHigh(c, high_value) == [lo |-> c.lo, hi |-> BitOr(c.hi, high_value)]

\* the fields send_init sets
send_init_command(c) ==
    Set(Set(Set(Set(Set(c, "vector", 0),
                    "delivery_mode", IpiDeliveryModeInit),
                "level", IpiLevelAssert),
            "trigger_mode", IpiTriggerModeEdgeTriggered),
        "destination_target", IpiTargetAllExcludingCurrent)

\* the fields send_startup sets
send_startup_command(c, vector) ==
    Set(Set(Set(Set(Set(c, "vector", vector),
                    "delivery_mode", IpiDeliveryModeStartup),
                "level", IpiLevelAssert),
            "trigger_mode", IpiTriggerModeEdgeTriggered),
        "destination_target", IpiTargetAllExcludingCurrent)

\* `val as u32`, the shift forgotten
high_val_unshifted(val) == val.lo

\* (val >> 32) as u32
high_val(val) == val.hi

\* (val & 0xFFFFFFFF) as u32
low_val(val) == val.lo

\* what the low register may hold when the kernel starts sending: nothing, a
\* command still pending, an earlier level-triggered fixed interrupt
IcrLowValues == {0, 4096, 1624368}

\* what the high register may hold: nothing, a destination, reserved bits
IcrHighValues == {0, 16777216, 7}

\* the vectors send_startup is called with
Vectors == {0, 8, 255}

IpiInit ==
    /\ ipc = "idle"
    /\ iop = "none"
    /\ ivector = 0
    /\ icr_low_reg \in IcrLowValues
    /\ icr_high_reg \in IcrHighValues
    /\ icr = InterruptCommand_new
    /\ ipiLog = << >>
    /\ ipiSpins = 0
    /\ ipiSends = 0

\* a register access, as the bus sees it
RegRead(reg, value) == << "read", reg, value >>

RegWrite(reg, value) == << "write", reg, value >>

\* send_init(): `let mut icr = InterruptCommand::new()` and the call of
\* read_icr_register
send_init ==
    /\ UNCHANGED << virtioVars, netVars >>
    /\ ipc = "idle"
    /\ ipiSends < MaxSends
    /\ iop' = "send_init"
    /\ ivector' = 0
    /\ icr' = InterruptCommand_new
    /\ ipiSpins' = 0
    /\ ipc' = "poll"
    /\ UNCHANGED << icr_low_reg, icr_high_reg, ipiLog, ipiSends >>

\* send_startup(vector): the same entry
send_startup(vector) ==
    /\ UNCHANGED << virtioVars, netVars >>
    /\ ipc = "idle"
    /\ ipiSends < MaxSends
    /\ iop' = "send_startup"
    /\ ivector' = vector
    /\ icr' = InterruptCommand_new
    /\ ipiSpins' = 0
    /\ ipc' = "poll"
    /\ UNCHANGED << icr_low_reg, icr_high_reg, ipiLog, ipiSends >>

\* read_icr_register without the test of the delivery status: one read of the
\* low register, whatever it shows
read_icr_register_low_once ==
    /\ UNCHANGED << virtioVars, netVars >>
    /\ ipc = "poll"
    /\ icr' = InterruptCommand_from(icr_low_reg)
    /\ ipiLog' = Append(ipiLog, RegRead(INTERRUPT_COMMAND_REGISTER_LOW, icr_low_reg))
    /\ ipc' = "read_high"
    /\ UNCHANGED << iop, ivector, icr_low_reg, icr_high_reg, ipiSpins, ipiSends >>

\* read_icr_register, one iteration of the loop: read the low register, leave
\* the loop when the delivery status is Idle, else go round again at once
read_icr_register_low ==
    /\ UNCHANGED << virtioVars, netVars >>
    /\ ipc = "poll"
    /\ LET low_value == icr_low_reg
           read == InterruptCommand_from(low_value)
       IN  /\ icr' = read
           /\ ipiLog' = Append(ipiLog, RegRead(INTERRUPT_COMMAND_REGISTER_LOW, low_value))
           /\ IF Get(read, "delivery_status") = IpiDeliveryStatusIdle
                  THEN /\ ipc' = "read_high"
                       /\ ipiSpins' = ipiSpins
                  ELSE /\ ipiSpins < MaxSpins
                       /\ ipc' = "poll"
                       /\ ipiSpins' = ipiSpins + 1
    /\ UNCHANGED << iop, ivector, icr_low_reg, icr_high_reg, ipiSends >>

\* read_icr_register, after the loop: read the high register and combine
read_icr_register_high ==
    /\ UNCHANGED << virtioVars, netVars >>
    /\ ipc = "read_high"
    /\ LET high_value == icr_high_reg
       IN  /\ icr' = WithHigh(icr, high_value)
           /\ ipiLog' = Append(ipiLog, RegRead(INTERRUPT_COMMAND_REGISTER_HIGH, high_value))
    /\ ipc' = "set"
    /\ UNCHANGED << iop, ivector, icr_low_reg, icr_high_reg, ipiSpins, ipiSends >>

\* send_init and send_startup, the setters between read_icr_register and send
set_fields ==
    /\ UNCHANGED << virtioVars, netVars >>
    /\ ipc = "set"
    /\ icr' = IF iop = "send_init" THEN send_init_command(icr)
                                   ELSE send_startup_command(icr, ivector)
    /\ ipc' = "send_high"
    /\ UNCHANGED << iop, ivector, icr_low_reg, icr_high_reg, ipiLog, ipiSpins, ipiSends >>

\* send(val), the first write
send_high ==
    /\ UNCHANGED << virtioVars, netVars >>
    /\ ipc = "send_high"
    /\ icr_high_reg' = high_val(icr)
    /\ ipiLog' = Append(ipiLog, RegWrite(INTERRUPT_COMMAND_REGISTER_HIGH, high_val(icr)))
    /\ ipc' = "send_low"
    /\ UNCHANGED << iop, ivector, icr_low_reg, icr, ipiSpins, ipiSends >>

\* the low register after the write of a command: the APIC holds the command
\* and shows it as SendPending until it is delivered
Accepted(value) ==
    Set(InterruptCommand_from(value), "delivery_status", IpiDeliveryStatusSendPending).lo

\* send(val), the second write, which issues the interrupt, and the return
send_low ==
    /\ UNCHANGED << virtioVars, netVars >>
    /\ ipc = "send_low"
    /\ icr_low_reg' = Accepted(low_val(icr))
    /\ ipiLog' = Append(ipiLog, RegWrite(INTERRUPT_COMMAND_REGISTER_LOW, low_val(icr)))
    /\ ipc' = "idle"
    /\ iop' = "none"
    /\ ipiSends' = ipiSends + 1
    /\ UNCHANGED << ivector, icr_high_reg, icr, ipiSpins >>

\* the APIC delivers the pending interrupt: the delivery status is Idle again
ApicDelivers ==
    /\ UNCHANGED << virtioVars, netVars >>
    /\ Get(InterruptCommand_from(icr_low_reg), "delivery_status") = IpiDeliveryStatusSendPending
    /\ icr_low_reg' = Set(InterruptCommand_from(icr_low_reg), "delivery_status",
                          IpiDeliveryStatusIdle).lo
    /\ UNCHANGED << ipc, iop, ivector, icr_high_reg, icr, ipiLog, ipiSpins, ipiSends >>

-----------------------------------------------------------------------------
(* The socket calls and the polling thread of network/mod.rs *)

\* the socket calls the application makes
MaxCalls == 3

\* the sleeps of one accept_tcp explored
MaxSleeps == 2

\* `let local_port = 1797`
local_port == 1797

\* the port the remote peer connects from
PeerPort == 40000

\* socket.is_active(): a connection is being set up or is set up
is_active(state) == state \in {"SynSent", "SynReceived", "Established"}

\* the port connect_tcp is asked to connect to
HostPort == 80

\* INTERFACES after init: the interface of the controller, if there is one
Interfaces == IF rtl8139 THEN 1 ELSE 0

NetInit ==
    /\ socketsLock = "none"
    /\ interfacesLock = "none"
    /\ apc = "idle"
    /\ aop = "none"
    /\ ppc = "start"
    /\ tcpState = "Closed"
    /\ peerSyn = FALSE
    /\ netRet = NoResult
    /\ netSleeps = 0
    /\ rtl8139 \in BOOLEAN
    /\ remote = None
    /\ netCalls = 0
    /\ ip_addrs = << >>
    /\ default_route = None
    /\ dhcpEvent = None

\* bind_tcp: takes the write lock of SOCKETS, socket.listen(port), and drops
\* the lock on return
bind_tcp ==
    /\ UNCHANGED << virtioVars, ipiVars, dhcpVars >>
    /\ apc = "idle"
    /\ netCalls < MaxCalls
    /\ socketsLock = "none"
    /\ IF tcpState = "Closed"
           THEN tcpState' = "Listen" /\ netRet' = Ok("unit")
           ELSE tcpState' = tcpState /\ netRet' = Err("InvalidState")
    /\ netCalls' = netCalls + 1
    /\ UNCHANGED << socketsLock, interfacesLock, apc, aop, ppc, peerSyn, netSleeps,
                    rtl8139, remote >>

\* accept_tcp, line 154: SOCKETS.write()
accept_tcp ==
    /\ UNCHANGED << virtioVars, ipiVars, dhcpVars >>
    /\ apc = "idle"
    /\ netCalls < MaxCalls
    /\ socketsLock = "none"
    /\ socketsLock' = "app"
    /\ aop' = "accept_tcp"
    /\ apc' = "accept_loop"
    /\ netSleeps' = 0
    /\ netCalls' = netCalls + 1
    /\ UNCHANGED << interfacesLock, ppc, tcpState, peerSyn, netRet, rtl8139, remote >>

\* accept_tcp, one iteration of `while !socket.is_active()`: sleep, the write
\* guard `sockets` stays alive
accept_tcp_sleep ==
    /\ UNCHANGED << virtioVars, ipiVars, dhcpVars >>
    /\ apc = "accept_loop"
    /\ ~ is_active(tcpState)
    /\ netSleeps < MaxSleeps
    /\ netSleeps' = netSleeps + 1
    /\ UNCHANGED << socketsLock, interfacesLock, apc, aop, ppc, tcpState, peerSyn,
                    netRet, rtl8139, remote, netCalls >>

\* accept_tcp, the loop ends: return the port of the remote endpoint, which
\* drops the guard
accept_tcp_return ==
    /\ UNCHANGED << virtioVars, ipiVars, dhcpVars >>
    /\ apc = "accept_loop"
    /\ is_active(tcpState)
    /\ netRet' = Ok(remote[1])
    /\ socketsLock' = "none"
    /\ apc' = "idle"
    /\ aop' = "none"
    /\ UNCHANGED << interfacesLock, ppc, tcpState, peerSyn, netSleeps, rtl8139,
                    remote, netCalls >>

\* connect_tcp, line 165: SOCKETS.write()
connect_tcp ==
    /\ UNCHANGED << virtioVars, ipiVars, dhcpVars >>
    /\ apc = "idle"
    /\ netCalls < MaxCalls
    /\ socketsLock = "none"
    /\ socketsLock' = "app"
    /\ aop' = "connect_tcp"
    /\ apc' = "connect_interfaces"
    /\ netCalls' = netCalls + 1
    /\ UNCHANGED << interfacesLock, ppc, tcpState, peerSyn, netRet, netSleeps,
                    rtl8139, remote >>

\* connect_tcp, line 166: INTERFACES.write()
connect_tcp_interfaces ==
    /\ UNCHANGED << virtioVars, ipiVars, dhcpVars >>
    /\ apc = "connect_interfaces"
    /\ interfacesLock = "none"
    /\ interfacesLock' = "app"
    /\ apc' = "connect_body"
    /\ UNCHANGED << socketsLock, aop, ppc, tcpState, peerSyn, netRet, netSleeps,
                    rtl8139, remote, netCalls >>

\* connect_tcp, lines 168 to 175: InvalidState without an interface or from
\* socket.connect on a socket that is open, else the local port; both guards
\* are dropped on return
connect_tcp_body ==
    /\ UNCHANGED << virtioVars, ipiVars, dhcpVars >>
    /\ apc = "connect_body"
    /\ IF Interfaces = 0 \/ tcpState /= "Closed"
           THEN /\ netRet' = Err("InvalidState")
                /\ UNCHANGED << tcpState, remote >>
           ELSE /\ tcpState' = "SynSent"
                /\ remote' = Some(HostPort)
                /\ netRet' = Ok(local_port)
    /\ socketsLock' = "none"
    /\ interfacesLock' = "none"
    /\ apc' = "idle"
    /\ aop' = "none"
    /\ UNCHANGED << ppc, peerSyn, netSleeps, rtl8139, netCalls >>

\* poll_sockets, line 222: INTERFACES.write(); the thread exists when init
\* found the controller
poll_sockets ==
    /\ UNCHANGED << virtioVars, ipiVars, dhcpVars >>
    /\ rtl8139
    /\ ppc = "start"
    /\ interfacesLock = "none"
    /\ interfacesLock' = "poll"
    /\ ppc' = "poll_sockets"
    /\ UNCHANGED << socketsLock, apc, aop, tcpState, peerSyn, netRet, netSleeps,
                    rtl8139, remote, netCalls >>

\* poll_sockets, line 223: SOCKETS.write()
poll_sockets_sockets ==
    /\ UNCHANGED << virtioVars, ipiVars, dhcpVars >>
    /\ ppc = "poll_sockets"
    /\ socketsLock = "none"
    /\ socketsLock' = "poll"
    /\ ppc' = "poll_body"
    /\ UNCHANGED << interfacesLock, apc, aop, tcpState, peerSyn, netRet, netSleeps,
                    rtl8139, remote, netCalls >>

\* interface.poll on the socket of the application: a listening socket takes
\* the connection request of the peer, a connecting socket may get its answer
Polled(state, syn) ==
    IF state = "Listen" /\ syn THEN {"SynReceived"}
    ELSE IF state = "SynReceived" THEN {"Established"}
    ELSE IF state = "SynSent" THEN {"SynSent", "Established"}
    ELSE {state}

\* the addresses a DHCP lease may carry
Addresses == {"10.0.2.15", "192.168.1.7"}

\* the routers a DHCP lease may carry
Routers == {"10.0.2.2", "192.168.1.1"}

\* dhcpv4::Event
Deconfigured == << "Deconfigured" >>

Configured(address, router) == << "Configured", address, router >>

\* what dhcp.poll() may return: no event, or one of the two events
DhcpPolls ==
    {None} \cup {Some(Deconfigured)}
           \cup {Some(Configured(a, r)) : a \in Addresses,
                                          r \in {None} \cup {Some(x) : x \in Routers}}

\* addrs.clear()
clear(addrs) == << >>

\* addrs.push(address)
push(addrs, address) == Append(addrs, address)

\* routes_mut().add_default_ipv4_route(router): the default route is replaced
add_default_ipv4_route(route, router) == Some(router)

\* routes_mut().remove_default_ipv4_route()
remove_default_ipv4_route(route) == None

\* the match on the event with a lease without a router leaving the default
\* route alone
HandleDhcp_keep_route(event, addrs, route) ==
    IF event = Deconfigured
        THEN [addrs |-> clear(addrs), route |-> remove_default_ipv4_route(route)]
        ELSE [addrs |-> push(clear(addrs), event[2]),
              route |-> IF event[3] /= None
                            THEN add_default_ipv4_route(route, event[3][1])
                            ELSE route]

\* poll_sockets, lines 236 to 265: the match on the event
HandleDhcp(event, addrs, route) ==
    IF event = Deconfigured
        THEN [addrs |-> clear(addrs), route |-> remove_default_ipv4_route(route)]
        ELSE [addrs |-> push(clear(addrs), event[2]),
              route |-> IF event[3] /= None
                            THEN add_default_ipv4_route(route, event[3][1])
                            ELSE remove_default_ipv4_route(route)]

\* poll_sockets, lines 231 to 270: poll every interface and handle the event
\* of the DHCP socket, if there is one, then return, which drops both guards;
\* the thread calls poll_sockets again
poll_sockets_body ==
    /\ UNCHANGED << virtioVars, ipiVars >>
    /\ ppc = "poll_body"
    /\ IF Interfaces = 0
           THEN UNCHANGED << tcpState, remote, dhcpVars >>
           ELSE /\ tcpState' \in Polled(tcpState, peerSyn)
                /\ remote' = IF tcpState = "Listen" /\ peerSyn THEN Some(PeerPort)
                                                                ELSE remote
                /\ \E polled \in DhcpPolls :
                       IF polled = None
                           THEN UNCHANGED dhcpVars
                           ELSE LET handled == HandleDhcp(polled[1], ip_addrs, default_route)
                                IN  /\ ip_addrs' = handled.addrs
                                    /\ default_route' = handled.route
                                    /\ dhcpEvent' = polled
    /\ socketsLock' = "none"
    /\ interfacesLock' = "none"
    /\ ppc' = "start"
    /\ UNCHANGED << apc, aop, peerSyn, netRet, netSleeps, rtl8139, netCalls >>

\* a remote peer sends a connection request to the listening port
PeerConnects ==
    /\ UNCHANGED << virtioVars, ipiVars, dhcpVars >>
    /\ ~ peerSyn
    /\ peerSyn' = TRUE
    /\ UNCHANGED << socketsLock, interfacesLock, apc, aop, ppc, tcpState, netRet,
                    netSleeps, rtl8139, remote, netCalls >>

-----------------------------------------------------------------------------
\* the kernel before any interrupt is sent and any socket call is made
Init ==
    /\ VirtioInit
    /\ IpiInit /\ icr_low_reg = 0 /\ icr_high_reg = 0
    /\ NetInit /\ ~ rtl8139

Next ==
    \/ IgnoreDevice
    \/ \E t \in DeviceTypes : FoundDevice(t)
    \/ Return
    \/ \E c \in CapSet : ScanCapability(c)
    \/ ScanEnd
    \/ \E resolved \in SUBSET BarSlots : BuildTransport(resolved)
    \/ DispatchBlock
    \/ DispatchOther

Spec == Init /\ [][Next]_vars

\* the sending of inter-processor interrupts, on a machine with one device
InitIpi ==
    /\ VirtioInit /\ numDevices = 1
    /\ IpiInit
    /\ NetInit /\ ~ rtl8139

NextIpi ==
    \/ send_init
    \/ \E vector \in Vectors : send_startup(vector)
    \/ read_icr_register_low
    \/ read_icr_register_high
    \/ set_fields
    \/ send_high
    \/ send_low
    \/ ApicDelivers

SpecIpi == InitIpi /\ [][NextIpi]_vars

\* the socket calls of one application thread and the polling thread
InitNet ==
    /\ VirtioInit /\ numDevices = 1
    /\ IpiInit /\ icr_low_reg = 0 /\ icr_high_reg = 0
    /\ NetInit

NextNet ==
    \/ bind_tcp
    \/ accept_tcp
    \/ accept_tcp_sleep
    \/ accept_tcp_return
    \/ connect_tcp
    \/ connect_tcp_interfaces
    \/ connect_tcp_body
    \/ poll_sockets
    \/ poll_sockets_sockets
    \/ poll_sockets_body
    \/ PeerConnects

SpecNet == InitNet /\ [][NextNet]_vars

----------------------------------------------------------------------------
(* Vocabulary of the properties of the capability scan *)

ConfigTypes == {VIRTIO_PCI_CAP_COMMON_CFG, VIRTIO_PCI_CAP_NOTIFY_CFG,
                VIRTIO_PCI_CAP_ISR_CFG, VIRTIO_PCI_CAP_DEVICE_CFG}

\* the slot the scan keeps for a config type
Slot(t) ==
    IF t = VIRTIO_PCI_CAP_COMMON_CFG THEN common_cfg
    ELSE IF t = VIRTIO_PCI_CAP_NOTIFY_CFG THEN notify_cfg
    ELSE IF t = VIRTIO_PCI_CAP_ISR_CFG THEN isr_cfg
    ELSE device_cfg

\* the record a capability is expected to give: bar = low byte of the word
\* at +4, offset = word at +8, length = word at +12
Expected(c) == [bar |-> c.w[4] % 256, offset |-> c.w[8], length |-> c.w[12]]

\* a vendor capability of a known type that is not too short
LongEnough(c) == c.vendor /\ c.type \in ConfigTypes /\ c.len >= 16

\* ... and that, if it is a Notify capability, has room for the multiplier
LongEnoughForType(c) ==
    LongEnough(c) /\ (c.type = VIRTIO_PCI_CAP_NOTIFY_CFG => c.len >= 20)

\* a vendor capability that is too short
Short(c) == c.vendor /\ c.len < 16

\* the positions of the entries of type t in list l that satisfy WF
Entries(l, t, WF(_)) == {i \in DOMAIN l : l[i].type = t /\ WF(l[i])}

Min(S) == CHOOSE i \in S : \A j \in S : i <= j

ExactlyOneOfEach(l, WF(_)) ==
    \A t \in ConfigTypes : Cardinality(Entries(l, t, WF)) = 1

\* the scan results are those of the single entry of each type
AllPopulated(WF(_)) ==
    \A t \in ConfigTypes :
        \E i \in Entries(caps, t, WF) :
            /\ Slot(t) = Some(Expected(caps[i]))
            /\ t = VIRTIO_PCI_CAP_NOTIFY_CFG
                   => notify_off_multiplier = caps[i].w[16]

\* the scan results are those of the first entry of each type
FirstKept(WF(_)) ==
    /\ \A t \in ConfigTypes :
          Slot(t) = IF Entries(caps, t, WF) = {} THEN None
                    ELSE Some(Expected(caps[Min(Entries(caps, t, WF))]))
    /\ notify_off_multiplier =
          IF Entries(caps, VIRTIO_PCI_CAP_NOTIFY_CFG, WF) = {} THEN 0
          ELSE caps[Min(Entries(caps, VIRTIO_PCI_CAP_NOTIFY_CFG, WF))].w[16]

\* the scan loop may end after any iteration, so that every state of the
\* loop holds the results of the scan of the list `caps`
Scanning == pc = "scan"

----------------------------------------------------------------------------
(* C1 *)

\* C1, as stated: for every capability list with exactly one vendor
\* capability of at least 16 bytes of each of the four config types, the
\* scan populates all four slots with bar = low byte of the word at +4,
\* offset = word at +8, length = word at +12, and the multiplier is the
\* word at +16 of the Notify entry.
C1_AllSlotsPopulated_Original ==
    (Scanning /\ ExactlyOneOfEach(caps, LongEnough)) => AllPopulated(LongEnough)

\* C1, amended: the same, for lists with exactly one capability of each
\* type that has cap_len >= 16 and, for Notify, cap_len >= 20.
C1_AllSlotsPopulated ==
    (Scanning /\ ExactlyOneOfEach(caps, LongEnoughForType))
        => AllPopulated(LongEnoughForType)

C1_Witness ==
    /\ Scanning
    /\ ExactlyOneOfEach(caps, LongEnoughForType)
    /\ \E i \in DOMAIN caps : caps[i].w[4] >= 256 /\ LongEnoughForType(caps[i])
    /\ notify_off_multiplier /= 0

(* C2 *)

\* C2: one step of the scan over a vendor capability whose cap_len is below
\* 16 leaves the four slots and the notify multiplier as they were.
C2_ShortCapabilityIgnored ==
    [][(/\ Scanning
        /\ Len(caps') = Len(caps) + 1
        /\ Short(caps'[Len(caps')]))
       => UNCHANGED << common_cfg, notify_cfg, isr_cfg, device_cfg,
                       notify_off_multiplier >>]_vars

C2_Witness ==
    /\ Scanning
    /\ Len(caps) >= 2
    /\ Short(caps[Len(caps)])
    /\ caps[Len(caps)].type = VIRTIO_PCI_CAP_NOTIFY_CFG
    /\ common_cfg /= None
    /\ notify_cfg = None

(* C3 *)

\* C3, as stated: for every config type the record kept is that of the
\* first entry of the type with cap_len >= 16, and the multiplier that of
\* the first such Notify entry; later entries change neither.
C3_FirstOccurrenceWins_Original == Scanning => FirstKept(LongEnough)

\* C3, amended: the record kept is that of the first entry of the type with
\* cap_len >= 16 and, for Notify, cap_len >= 20; later entries of the type
\* change neither the record nor the multiplier.
C3_FirstOccurrenceWins == Scanning => FirstKept(LongEnoughForType)

C3_Witness ==
    /\ Scanning
    /\ \E t \in {VIRTIO_PCI_CAP_COMMON_CFG, VIRTIO_PCI_CAP_NOTIFY_CFG} :
         \E i, j \in Entries(caps, t, LongEnoughForType) :
             i < j /\ caps[i].w /= caps[j].w

----------------------------------------------------------------------------
(* Vocabulary of the properties of the transport builder and of init() *)

\* VirtioPci::new has returned for the current device
Returned == result /= NoResult

\* the capability recorded in a slot names a BAR that does not resolve
Unresolved(slot) == slot /= None /\ slot[1].bar \notin bars

MandatoryRecorded ==
    common_cfg /= None /\ notify_cfg /= None /\ isr_cfg /= None

MandatoryResolved ==
    /\ MandatoryRecorded
    /\ ~Unresolved(common_cfg)
    /\ ~Unresolved(notify_cfg)
    /\ ~Unresolved(isr_cfg)

Odd(m) == m % 2 = 1

(* C4 *)

\* C4: VirtioPci::new fails with MissingCommonConfig if and only if no
\* Common capability was recorded, and it fails with MissingNotifyConfig
\* (MissingIsrConfig) only if no Notify (Isr) capability was recorded.  Of
\* the claim's other half, that a missing Notify or Isr capability gives
\* its own error, only one error can be returned when several capabilities
\* are missing, so this half is the one that tells about the code.
C4_MissingErrorIffAbsent ==
    Returned =>
        /\ (result.err = MissingCommonConfig) <=> (common_cfg = None)
        /\ (result.err = MissingNotifyConfig) => (notify_cfg = None)
        /\ (result.err = MissingIsrConfig) => (isr_cfg = None)

(* C5 *)

\* C5, as stated: whenever the multiplier read during the scan is odd,
\* VirtioPci::new returns InvalidNotifyOffMultiplier, whatever the other
\* capabilities and their BARs are.
C5_OddMultiplierRejected_Original ==
    (Returned /\ Odd(notify_off_multiplier))
        => result.err = InvalidNotifyOffMultiplier(notify_off_multiplier)

\* C5, amended: whenever the multiplier read during the scan is odd and a
\* Common capability was recorded whose BAR resolves, VirtioPci::new
\* returns InvalidNotifyOffMultiplier, whatever the Isr and Device
\* capabilities are and whether or not the other BARs resolve; with an odd
\* multiplier it never succeeds.
C5_OddMultiplierRejected ==
    (Returned /\ Odd(notify_off_multiplier)) =>
        /\ ~result.ok
        /\ (common_cfg /= None /\ ~Unresolved(common_cfg))
              => result.err = InvalidNotifyOffMultiplier(notify_off_multiplier)

C5_Witness ==
    /\ Returned
    /\ Odd(notify_off_multiplier)
    /\ common_cfg /= None
    /\ ~Unresolved(common_cfg)
    /\ Unresolved(notify_cfg)
    /\ isr_cfg = None

(* C6 *)

\* C6: whenever the three mandatory capabilities are recorded, the
\* multiplier is even (so that no other error applies) and a recorded
\* capability names a BAR that does not resolve, VirtioPci::new fails with
\* BarOffsetOutOfRange.
C6_UnresolvedBarOutOfRange ==
    (/\ Returned
     /\ MandatoryRecorded
     /\ ~Odd(notify_off_multiplier)
     /\ \E t \in ConfigTypes : Unresolved(Slot(t)))
        => result.err = BarOffsetOutOfRange

(* C7 *)

\* C7, as stated: when Common, Notify and Isr are recorded with resolvable
\* BARs and the multiplier is even, VirtioPci::new succeeds whether or not
\* a Device capability is present, and the transport's device config region
\* is None exactly when no Device capability was recorded.
C7_DeviceConfigOptional_Original ==
    (Returned /\ MandatoryResolved /\ ~Odd(notify_off_multiplier)) =>
        /\ result.ok
        /\ (result.val[1].config_space = None) <=> (device_cfg = None)

\* C7, amended: when Common, Notify and Isr are recorded with resolvable
\* BARs and the multiplier is even, VirtioPci::new succeeds if no Device
\* capability was recorded or the BAR of the recorded one resolves, and
\* fails with BarOffsetOutOfRange otherwise; on success the transport's
\* device config region is None exactly when no Device capability was
\* recorded.
C7_DeviceConfigOptional ==
    (Returned /\ MandatoryResolved /\ ~Odd(notify_off_multiplier)) =>
        IF Unresolved(device_cfg)
        THEN result.err = BarOffsetOutOfRange
        ELSE /\ result.ok
             /\ (result.val[1].config_space = None) <=> (device_cfg = None)
             /\ device_cfg /= None
                    => result.val[1].config_space = Some(device_cfg[1].bar)

C7_Witness ==
    /\ Returned
    /\ result.ok
    /\ device_cfg /= None
    /\ result.val[1].config_space /= None

(* C8 *)

\* C8: when VirtioPci::new returns MissingCommonConfig for a recognized
\* device, init() does not panic: it logs the failure and goes on with the
\* remaining devices.
C8_MissingCommonLoggedAndSkipped ==
    (Returned /\ result.err = MissingCommonConfig) =>
        /\ panic = "none"
        /\ pc /= "panicked"

(* C9 *)

\* C9: while init() is at a device whose type is unrecognized or is not
\* Block, no class driver is constructed for it and no error is raised:
\* init() does not stop at it.
C9_UnsupportedSkipped ==
    (devIdx >= 1 /\ typ /= Some("Block")) =>
        /\ devIdx \notin constructed
        /\ panic = "none"
        /\ pc /= "panicked"

(* C10 *)

\* C10: a class-driver constructor is invoked, and a Transport operation
\* issued, only for a device for which VirtioPci::new has returned Ok.
C10_DriverOnlyAfterTransportOk ==
    /\ constructed \subseteq transports
    /\ transportOps \subseteq transports
    /\ \A d \in constructed \cup transportOps :
          d = devIdx => (Returned /\ result.ok)
    /\ pc \in {"scan", "build"} => devIdx \notin constructed \cup transportOps

C10_Witness ==
    /\ constructed /= {}
    /\ transportOps /= {}
    /\ devIdx = 2

----------------------------------------------------------------------------
(* C11: the end-to-end scenario *)

\* the capabilities of the synthetic device: Common, Notify and Isr at BARs
\* 0, 1 and 2, with notify_off_multiplier 4
EndToEndCaps ==
    { Cap(TRUE, 64, 16, VIRTIO_PCI_CAP_COMMON_CFG, Words(0, 0, 56, 0)),
      Cap(TRUE, 64, 20, VIRTIO_PCI_CAP_NOTIFY_CFG, Words(1, 0, 4, 4)),
      Cap(TRUE, 64, 16, VIRTIO_PCI_CAP_ISR_CFG, Words(2, 0, 1, 0)) }

\* the BARs of the synthetic device
EndToEndBars == {0, 1, 2}

\* init() over Block devices of this kind only
NextEndToEnd ==
    \/ FoundDevice("Block")
    \/ \E c \in EndToEndCaps : ScanCapability(c)
    \/ ScanEnd
    \/ BuildTransport(EndToEndBars)
    \/ DispatchBlock

SpecEndToEnd == Init /\ [][NextEndToEnd]_vars

\* the transport init() has built is that of the scenario
EndToEndTransport ==
    /\ result /= NoResult
    /\ result.ok
    /\ result.val[1].common_cfg = 0
    /\ result.val[1].notify_region = 1
    /\ result.val[1].isr_status = 2
    /\ result.val[1].notify_off_multiplier = 4

\* C11: for a device exposing Common/Notify/Isr at BARs 0/1/2 with
\* multiplier 4 the bring-up through the transport goes through: the
\* Transport operations the class driver issues (status writes up to
\* DRIVER_OK, queue_set, notify) return, so that init() is not ended by a
\* panic once the class driver has begun.
C11_BringUpReachesDriverOk ==
    (EndToEndTransport /\ devIdx \in transportOps) => panic = "none"

----------------------------------------------------------------------------
(* C12 *)

\* C12: every access of the capability scan is a read of the configuration
\* space: the scan writes nothing to it and touches no BAR memory.
C12_ScanOnlyReadsConfigSpace ==
    \A a \in accesses : a.kind = "cfg_read"

C12_Witness ==
    /\ Scanning
    /\ Len(caps) >= 2
    /\ Cardinality(accesses) = 5

(* C13 *)

\* C13, as stated: the lock of the configuration-space accessor is held
\* during the whole capability walk of a device.
C13_AccessorLockedDuringWalk_Original ==
    Scanning => << "config_space" >> \in locks

\* C13, amended: during the whole capability walk of a device, and until
\* VirtioPci::new returns, init() holds the read guard of that device's
\* RwLock and no other lock (the configuration-space accessor is taken by
\* reference and not locked); init() walks one device at a time, so every
\* configuration-space read of a walk is issued under the guard of the
\* device walked.
C13_DeviceLockedDuringWalk ==
    /\ pc \in {"scan", "build"} => << "device", devIdx >> \in locks
    /\ accesses /= {} => << "device", devIdx >> \in locks
    /\ \A l \in locks : l = << "device", devIdx >>

C13_Witness ==
    /\ Scanning
    /\ devIdx = 2
    /\ Len(caps) >= 2
    /\ accesses /= {}

(* C14 *)

\* the n bits of word w from bit `from` up
Bits(w, from, n) == (w \div (2 ^ from)) % (2 ^ n)

\* C14, as stated: for every vendor capability the scanner takes cap_len
\* from the low 16 bits of the header word and cfg_type from bits 16 to 23.
C14_HeaderDecoding_Original ==
    Scanning =>
        \A i \in {j \in DOMAIN caps : caps[j].vendor} :
            /\ cap_len(private_header(Read(caps[i], 0)))
                   = Bits(Read(caps[i], 0), 0, 16)
            /\ cfg_type(private_header(Read(caps[i], 0)))
                   = Bits(Read(caps[i], 0), 16, 8)

\* C14, amended: for every vendor capability the scanner takes cap_len from
\* bits 16 to 23 of the 32-bit header word and cfg_type from bits 24 to 31,
\* which are the cap_len and cfg_type bytes of the capability.
C14_HeaderDecoding ==
    Scanning =>
        \A i \in {j \in DOMAIN caps : caps[j].vendor} :
            /\ cap_len(private_header(Read(caps[i], 0)))
                   = Bits(Read(caps[i], 0), 16, 8)
            /\ cfg_type(private_header(Read(caps[i], 0)))
                   = Bits(Read(caps[i], 0), 24, 8)
            /\ cap_len(private_header(Read(caps[i], 0))) = caps[i].len
            /\ cfg_type(private_header(Read(caps[i], 0))) = caps[i].type

C14_Witness ==
    /\ Scanning
    /\ \E i \in DOMAIN caps :
          /\ caps[i].vendor
          /\ caps[i].len = 20
          /\ caps[i].type = VIRTIO_PCI_CAP_NOTIFY_CFG
          /\ notify_cfg = Some(Expected(caps[i]))

(* C16 *)

\* the slot of a config type after the step
SlotAfter(t) ==
    IF t = VIRTIO_PCI_CAP_COMMON_CFG THEN common_cfg'
    ELSE IF t = VIRTIO_PCI_CAP_NOTIFY_CFG THEN notify_cfg'
    ELSE IF t = VIRTIO_PCI_CAP_ISR_CFG THEN isr_cfg'
    ELSE device_cfg'

\* the step is one iteration of the scan loop
ScanStep == Scanning /\ Len(caps') = Len(caps) + 1

\* the capability the step is about
Scanned == caps'[Len(caps')]

MultiplierRead == CfgRead(16) \in accesses'

\* C16, as stated: a step over a vendor capability with cap_len >= 16, a
\* known cfg_type and an empty slot records it, a Notify capability with
\* 16 <= cap_len < 20 included; the multiplier is read at +16 only for a
\* Notify capability with cap_len >= 20 and otherwise keeps its value.
C16_RecordedWhenLongEnough_Original ==
    [][ScanStep =>
          /\ (LongEnough(Scanned) /\ Slot(Scanned.type) = None)
                => SlotAfter(Scanned.type) = Some(Expected(Scanned))
          /\ MultiplierRead
                => (Scanned.type = VIRTIO_PCI_CAP_NOTIFY_CFG /\ Scanned.len >= 20)
          /\ ~MultiplierRead => UNCHANGED notify_off_multiplier]_vars

\* C16, amended: a step over a vendor capability with cap_len >= 16 (>= 20
\* for Notify), a known cfg_type and an empty slot records it; a Notify
\* capability with 16 <= cap_len < 20 is not recorded and changes nothing;
\* the multiplier is read at +16 exactly when a Notify capability with
\* cap_len >= 20 is recorded, and otherwise keeps its value, which is 0
\* until then.
C16_RecordedWhenLongEnough ==
    [][ScanStep =>
          /\ (LongEnoughForType(Scanned) /\ Slot(Scanned.type) = None)
                => SlotAfter(Scanned.type) = Some(Expected(Scanned))
          /\ (LongEnough(Scanned) /\ ~LongEnoughForType(Scanned))
                => UNCHANGED << common_cfg, notify_cfg, isr_cfg, device_cfg,
                                notify_off_multiplier >>
          /\ MultiplierRead
                <=> /\ LongEnoughForType(Scanned)
                    /\ Scanned.type = VIRTIO_PCI_CAP_NOTIFY_CFG
                    /\ notify_cfg = None
          /\ MultiplierRead => notify_off_multiplier' = Scanned.w[16]
          /\ ~MultiplierRead => UNCHANGED notify_off_multiplier
          /\ notify_cfg' = None => notify_off_multiplier' = 0]_vars

C16_Witness ==
    /\ Scanning
    /\ Len(caps) >= 2
    /\ caps[Len(caps)].vendor
    /\ caps[Len(caps)].type = VIRTIO_PCI_CAP_NOTIFY_CFG
    /\ caps[Len(caps)].len = 16
    /\ notify_cfg = None
    /\ common_cfg /= None
    /\ CfgRead(16) \notin accesses

(* C18 *)

\* the defects of the claim, in its order, each with the error the builder
\* gives for it
Defects ==
    << [applies |-> common_cfg = None, err |-> MissingCommonConfig],
       [applies |-> Unresolved(common_cfg), err |-> BarOffsetOutOfRange],
       [applies |-> Odd(notify_off_multiplier),
        err |-> InvalidNotifyOffMultiplier(notify_off_multiplier)],
       [applies |-> notify_cfg = None, err |-> MissingNotifyConfig],
       [applies |-> Unresolved(notify_cfg), err |-> MissingNotifyConfig],
       [applies |-> isr_cfg = None, err |-> MissingIsrConfig],
       [applies |-> Unresolved(isr_cfg), err |-> MissingIsrConfig],
       [applies |-> Unresolved(device_cfg), err |-> BarOffsetOutOfRange] >>

Applying == {i \in DOMAIN Defects : Defects[i].applies}

\* C18: the error VirtioPci::new returns is that of the first defect that
\* applies in the order missing Common, unresolved Common BAR, odd
\* multiplier, missing Notify, unresolved Notify BAR, missing Isr,
\* unresolved Isr BAR, unresolved Device BAR, and it returns Ok exactly
\* when none applies.
C18_ErrorPrecedence ==
    Returned =>
        /\ result.ok <=> Applying = {}
        /\ Applying /= {} => result.err = Defects[Min(Applying)].err

C18_Witness ==
    /\ Returned
    /\ Unresolved(common_cfg)
    /\ Odd(notify_off_multiplier)
    /\ isr_cfg = None
    /\ Unresolved(device_cfg)


-----------------------------------------------------------------------------
(* C15 *)

-----------------------------------------------------------------------------
(* C17 *)

\* the commands written to the low Interrupt Command Register so far
LowWrites ==
    { ipiLog[i][3] : i \in { j \in DOMAIN ipiLog :
                               /\ ipiLog[j][1] = "write"
                               /\ ipiLog[j][2] = INTERRUPT_COMMAND_REGISTER_LOW } }

\* C17: every command written with delivery mode Init has level Deassert and
\* every command written with another delivery mode has level Assert.
C17_LevelMatchesDeliveryMode ==
    \A value \in LowWrites :
        LET command == InterruptCommand_from(value)
        IN  IF Get(command, "delivery_mode") = IpiDeliveryModeInit
                THEN Get(command, "level") = IpiLevelDeassert
                ELSE Get(command, "level") = IpiLevelAssert

-----------------------------------------------------------------------------
(* C19 *)

\* the lock a thread is about to take, if it is at an acquisition
Wants(thread) ==
    IF thread = "app"
        THEN IF apc = "connect_interfaces" THEN "INTERFACES" ELSE "none"
        ELSE IF ppc = "poll_sockets" THEN "SOCKETS" ELSE "none"

\* the thread that holds a lock
Holder(lock) == IF lock = "SOCKETS" THEN socketsLock ELSE interfacesLock

\* C19: connect_tcp and poll_sockets never deadlock: there is no state in
\* which each of the two threads is waiting for a write lock the other holds.
C19_ConnectAndPollNeverDeadlock ==
    ~ /\ aop = "connect_tcp"
      /\ Wants("app") /= "none" /\ Holder(Wants("app")) = "poll"
      /\ Wants("poll") /= "none" /\ Holder(Wants("poll")) = "app"

-----------------------------------------------------------------------------
(* C20 *)

\* C20: while a thread waits in accept_tcp on a listening socket, the socket
\* set is free for poll_sockets to acquire: the waiting thread does not hold
\* its write lock.
C20_PollCanAcquireWhileAccepting ==
    (apc = "accept_loop" /\ netSleeps > 0 /\ tcpState = "Listen") =>
        socketsLock /= "app"


-----------------------------------------------------------------------------
(* C21 *)

\* entry i of the log is a write of the low Interrupt Command Register
IsLowWrite(i) ==
    /\ ipiLog[i][1] = "write"
    /\ ipiLog[i][2] = INTERRUPT_COMMAND_REGISTER_LOW

\* entry i of the log is a read of the low register with the given status
IsLowRead(i, status) ==
    /\ ipiLog[i][1] = "read"
    /\ ipiLog[i][2] = INTERRUPT_COMMAND_REGISTER_LOW
    /\ Get(InterruptCommand_from(ipiLog[i][3]), "delivery_status") = status

\* C21: every write of the low ICR register comes after a read of the low
\* register that showed delivery status Idle, with no other write of the low
\* register between that read and the write.
C21_LowWriteAfterIdleRead ==
    \A i \in DOMAIN ipiLog :
        IsLowWrite(i) =>
            \E j \in 1..(i - 1) :
                /\ IsLowRead(j, IpiDeliveryStatusIdle)
                /\ \A k \in (j + 1)..(i - 1) : ~ IsLowWrite(k)

\* a command was issued after a wait that first found an earlier command
\* still pending
C21_Witness ==
    \E i \in DOMAIN ipiLog :
        /\ IsLowWrite(i)
        /\ i >= 6
        /\ IsLowWrite(i - 5)
        /\ IsLowRead(i - 4, IpiDeliveryStatusSendPending)
        /\ IsLowRead(i - 3, IpiDeliveryStatusIdle)

-----------------------------------------------------------------------------
(* C22 *)

\* the register writes issued so far, in order
Writes == SelectSeq(ipiLog, LAMBDA e : e[1] = "write")

\* (high << 32) | low, as the pair of halves
Recombined(high, low) == [lo |-> low, hi |-> high]

\* C22: send(val) writes the upper half of val to the high ICR register and
\* then the lower half to the low ICR register, these two writes and no
\* other, and the halves written recombine to val.
C22_SendWritesHighThenLow ==
    /\ Len(Writes) = 2 * ipiSends + (IF ipc = "send_low" THEN 1 ELSE 0)
    /\ \A i \in DOMAIN Writes :
           Writes[i][2] = IF i % 2 = 1 THEN INTERRUPT_COMMAND_REGISTER_HIGH
                                       ELSE INTERRUPT_COMMAND_REGISTER_LOW
    /\ (ipc = "send_low") => Writes[Len(Writes)][3] = icr.hi
    /\ (ipc = "idle" /\ ipiSends > 0) =>
           Recombined(Writes[Len(Writes) - 1][3], Writes[Len(Writes)][3]) = icr

\* send has returned after writing a value whose halves differ and whose
\* upper half is not zero
C22_Witness ==
    /\ ipc = "idle"
    /\ ipiSends > 0
    /\ icr.hi /= 0
    /\ icr.hi /= icr.lo
    /\ Len(Writes) >= 2


-----------------------------------------------------------------------------
(* C23 *)

\* C23: after poll_sockets has handled a Configured event the address list
\* is exactly the leased address and there is a default route if and only if
\* the lease carries a router; after a Deconfigured event the address list is
\* empty and there is no default route.
C23_DhcpEventApplied ==
    dhcpEvent /= None =>
        LET event == dhcpEvent[1]
        IN  IF event = Deconfigured
                THEN ip_addrs = << >> /\ default_route = None
                ELSE /\ ip_addrs = << event[2] >>
                     /\ (default_route /= None <=> event[3] /= None)
                     /\ (event[3] /= None => default_route = event[3])

\* the last event handled was a lease without a router
C23_Witness ==
    /\ dhcpEvent /= None
    /\ dhcpEvent[1] /= Deconfigured
    /\ dhcpEvent[1][3] = None
    /\ ip_addrs = << "192.168.1.7" >>
    /\ ppc = "start"

====
